---------------------------- MODULE Spec2Model ----------------------------
(***************************************************************************)
(* State-machine model of the useGeminiLive hook (hooks/useGeminiLive.ts,  *)
(* kept here as src/unnamed/part_002): the realtime session manager that   *)
(* bridges microphone capture, the remote live session, transcript         *)
(* accumulation and audio playback scheduling.                             *)
(*                                                                         *)
(* JavaScript runs one callback at a time.  Every action below is one      *)
(* synchronous stretch of code: a whole handler, or the part of an async   *)
(* function between two awaits.  An await on a promise that is not yet     *)
(* settled leaves a continuation behind (connPc, pendingDisc, pendingSend, *)
(* a source in state "decoding"); a continuation whose promise is settled  *)
(* is a microtask and runs before any further event callback (Quiet).      *)
(***************************************************************************)
EXTENDS Integers, Sequences, FiniteSets, TLC

\* ---------------------------------------------------------------- bounds
\* number of connect() calls that get past the credential check in one run
MaxConnects == 2
\* number of inbound events carrying an audio payload in one run
MaxAudio == 2
\* horizon of every output clock (AudioContext.currentTime), in ticks
MaxTime == 2
\* longest accumulated transcript, in characters
MaxText == 2
\* longest transcript list the presentation layer is followed to, in Messages
MaxShown == 3

Conns == 1..MaxConnects
Srcs == 1..MaxAudio
\* durations a decoded segment can have, in ticks
Durs == {1, 2}
Chars == {"a", "b"}
\* transcript fragments an event can carry: the empty string, or one character
Frags == {<<>>} \cup {<<c>> : c \in Chars}
\* texts the caller hands to sendText
Texts == {<<"a">>, <<"b", "a">>}
\* captured frames (e.inputBuffer.getChannelData(0)), as integer samples
Frames == {<<0, 0>>, <<1, -1>>, <<-2, 2>>}

\* MicState enum
IDLE == "idle"
LISTENING == "listening"
PROCESSING == "processing"
SPEAKING == "speaking"
MicStates == {IDLE, LISTENING, PROCESSING, SPEAKING}

NoError == "null"
NoRef == 0

VARIABLES
    \* React state returned by the hook
    isConnected, micState, error, volume,
    \* refs
    sessionPromiseRef, inputAudioContextRef, outputAudioContextRef,
    scriptProcessorRef, mediaStreamRef, nextStartTimeRef, sourcesRef,
    isMicOnRef, currentAiTextRef, currentUserTextRef,
    \* environment: credential, connect() calls and what each one created
    hasApiKey, connPc, sess, ctx, currentTime, stream, processor,
    \* audio sources ever created, by creation index; the scheduled end of
    \* the segment started last (0 after a drain)
    src, lastEnd,
    \* continuations waiting on a session promise
    pendingDisc, pendingSend, pendingFrames,
    \* the non-empty transcript fragments received for each role since that
    \* role's accumulator was last cleared, in arrival order
    heard,
    \* what the last step did, in order
    fx,
    \* what this run's environment may do (fixed by Init)
    lim,
    \* a stream has closed or failed and connect() has not been called since
    lost,
    \* the presentation layer's transcript list (App.tsx, useState<Message[]>)
    transcripts

hookState == <<isConnected, micState, error, volume>>
refs == <<sessionPromiseRef, inputAudioContextRef, outputAudioContextRef,
          scriptProcessorRef, mediaStreamRef, nextStartTimeRef, sourcesRef,
          isMicOnRef, currentAiTextRef, currentUserTextRef>>
envState == <<hasApiKey, connPc, sess, ctx, currentTime, stream, processor,
              src, lastEnd, pendingDisc, pendingSend, pendingFrames, heard, lim, lost>>
vars == <<hookState, refs, envState, fx, transcripts>>


\* ---------------------------------------------------------------- helpers
Max(a, b) == IF a >= b THEN a ELSE b

\* effects a step can leave in fx, in the order the code has them: the
\* Messages it hands to onTranscription, the drains (by whom, of how many
\* queued sources, at which output clock) and starts it does, what it
\* transmits, what it throws
Msg(text, role, isFinal) == <<"msg", text, role, isFinal>>
Drain(by, n, at) == <<"drain", by, n, at>>
TxText(k, text) == <<"tx", "text", k, text>>
TxFrame(k) == <<"tx", "frame", k>>
Threw(what) == <<"throw", what>>
\* deactivateMic() has closed the gate
Muted == <<"mute">>
\* close() called on an output context in state was ("none": no context)
Closing(was) == <<"close", was>>
\* an inbound event's step begins with the event itself
In(m) == <<"in", m>>

\* an AudioBufferSourceNode and the onmessage call that makes it: st is
\* "decoding" or "late" while that call awaits decodeAudioData (k: its output
\* context, dur: the segment's duration, intr: the event also says
\* interrupted), then "playing", "stopped" (stop() called, 'ended' still to
\* fire), "dead" (started on a closed context: never plays) or "gone"
\* ('ended' has fired, or the decode failed)
NoSource == [st |-> "none", k |-> 0, dur |-> 0, intr |-> FALSE]
Start(when, now, prevEnd) == <<"start", when, now, prevEnd>>

\* the session promise of connect() call k is settled (resolved or rejected)
Settled(k) == sess[k] \in {"open", "closing", "closed", "rejected"}

\* no continuation is runnable as a microtask: event callbacks may run
Quiet ==
    \A k \in Conns :
        (pendingDisc[k] > 0 \/ pendingSend[k] # <<>> \/ pendingFrames[k] > 0)
            => ~Settled(k)

\* the lowest unused index, 0 when none is left
FreeConn ==
    LET free == {k \in Conns : connPc[k] = "none" /\ k <= lim.connects}
    IN IF free = {} THEN 0 ELSE CHOOSE k \in free : \A j \in free : k <= j

FreeSrc ==
    LET free == {i \in Srcs : src[i].st = "none" /\ i <= lim.audio}
    IN IF free = {} THEN 0 ELSE CHOOSE i \in free : \A j \in free : i <= j

\* currentTime of the output context an onmessage closure holds
Clock(k) == currentTime[k]

\* a hook that would show 'processing' when playback ends with the gate off
RestoredViaProcessing(gate) == IF gate THEN LISTENING ELSE PROCESSING

\* setMicState(isMicOnRef.current ? LISTENING : IDLE)
RestoredMicState(gate) == IF gate THEN LISTENING ELSE IDLE

\* ------------------------------------------------------ stopAudioPlayback
\* a drain that would reset the cursor to the output clock
DrainCursorAtClock(now) == now

\* value the drain leaves in nextStartTimeRef
DrainCursor(now) == 0

\* source.stop() on every queued source
StopSources(s, q) ==
    [i \in Srcs |->
        IF i \in q /\ s[i].st = "playing" THEN [s[i] EXCEPT !.st = "stopped"]
        ELSE s[i]]

\* a source whose decode is still awaited is not in the queue, and a drain
\* by activateMic, sendText or disconnect does not touch it: its state
\* "late" only records that such a drain has run since its event arrived
Overtaken(s) ==
    [i \in Srcs |->
        IF s[i].st = "decoding" THEN [s[i] EXCEPT !.st = "late"] ELSE s[i]]

\* onmessage call i is suspended at `await decodeAudioData`
Decoding(i) == src[i].st \in {"decoding", "late"}

\* a drain that would stop the sources and keep them queued
QueueKept(q) == q

\* sourcesRef.current.clear()
ClearedQueue(q) == {}

\* the clock a drain happens at: that of the current output context
DrainClock == IF outputAudioContextRef = NoRef THEN 0 ELSE Clock(outputAudioContextRef)


\* ----------------------------------------------------- presentation layer
\* a Message of the transcript list, without its id and timestamp (both
\* Date.now(), read by nothing but the renderer's key)
Message(text, role, isFinal) == [text |-> text, role |-> role, isFinal |-> isFinal]

\* a list that would replace its last Message whenever the role is the same
ReplacesSameRole(lastMsg, role) == lastMsg.role = role

\* App.tsx line 28: !lastMsg.isFinal && lastMsg.role === role
ReplacesLast(lastMsg, role) == ~lastMsg.isFinal /\ lastMsg.role = role

\* App.tsx lines 24-40: the list after onTranscription(text, role, isFinal)
OnTranscription(prev, text, role, isFinal) ==
    LET newHistory ==
            IF prev # <<>> /\ ReplacesLast(prev[Len(prev)], role)
            THEN SubSeq(prev, 1, Len(prev) - 1)
            ELSE prev
    IN Append(newHistory, Message(text, role, isFinal))

\* the list after the transcript callbacks of one step, in their order
RECURSIVE Rendered(_, _)
Rendered(prev, f) ==
    IF f = <<>> THEN prev
    ELSE LET e == Head(f)
         IN Rendered(IF e[1] = "msg" THEN OnTranscription(prev, e[2], e[3], e[4])
                     ELSE prev,
                     Tail(f))

\* a step that has made the transcript callbacks in f
Shows(f) ==
    IF lim.shown = 0 THEN UNCHANGED transcripts
    ELSE /\ transcripts' = Rendered(transcripts, f)
         /\ Len(transcripts') <= lim.shown

\* ------------------------------------------------------------------- Init
\* what a run's environment may do: how many connect() calls and audio
\* events it makes, how much transcript text it sends (text 0: its events
\* carry no transcript and no turn end), whether the API_KEY is configured,
\* which texts it hands to sendText, how many continuations of one kind it
\* lets wait on one session promise, which durations its audio segments
\* have, how long a transcript list is followed (shown 0: the Messages go to
\* a caller that keeps no list)
Limits(c, a, t, keys, texts, p, durs, shown) ==
    [connects |-> c, audio |-> a, text |-> t, keys |-> keys, texts |-> texts,
     pending |-> p, durs |-> durs, shown |-> shown]

InitWith(l) ==
    /\ lim = l
    /\ hasApiKey \in l.keys
    /\ isConnected = FALSE
    /\ micState = IDLE
    /\ error = NoError
    /\ volume = 0
    /\ sessionPromiseRef = NoRef
    /\ inputAudioContextRef = NoRef
    /\ outputAudioContextRef = NoRef
    /\ scriptProcessorRef = NoRef
    /\ mediaStreamRef = NoRef
    /\ nextStartTimeRef = 0
    /\ sourcesRef = {}
    /\ isMicOnRef = FALSE
    /\ currentAiTextRef = <<>>
    /\ currentUserTextRef = <<>>
    /\ connPc = [k \in Conns |-> "none"]
    /\ sess = [k \in Conns |-> "none"]
    /\ ctx = [k \in Conns |-> "none"]
    /\ currentTime = [k \in Conns |-> 0]
    /\ stream = [k \in Conns |-> "none"]
    /\ processor = [k \in Conns |-> "none"]
    /\ src = [i \in Srcs |-> NoSource]
    /\ lastEnd = 0
    /\ pendingDisc = [k \in Conns |-> 0]
    /\ pendingSend = [k \in Conns |-> <<>>]
    /\ pendingFrames = [k \in Conns |-> 0]
    /\ heard = [ai |-> <<>>, user |-> <<>>]
    /\ lost = FALSE
    /\ transcripts = <<>>
    /\ fx = <<>>

\* ------------------------------------------------------------ user calls
\* activateMic()
ActivateMic ==
    /\ fx' = IF isConnected
             THEN <<Drain("activateMic", Cardinality(sourcesRef), DrainClock)>>
             ELSE <<>>
    /\ IF ~isConnected
       THEN UNCHANGED <<isMicOnRef, micState, src, lastEnd, sourcesRef, nextStartTimeRef>>
       ELSE /\ isMicOnRef' = TRUE
            /\ micState' = LISTENING
            /\ src' = Overtaken(StopSources(src, sourcesRef))
            /\ lastEnd' = 0
            /\ sourcesRef' = ClearedQueue(sourcesRef)
            /\ nextStartTimeRef' = DrainCursor(DrainClock)
    /\ UNCHANGED <<isConnected, error, volume, sessionPromiseRef,
                   inputAudioContextRef, outputAudioContextRef,
                   scriptProcessorRef, mediaStreamRef, currentAiTextRef,
                   currentUserTextRef, hasApiKey, connPc, sess, ctx,
                   currentTime, stream, processor, pendingDisc, pendingSend,
                   pendingFrames, heard,
                   lim, lost, transcripts>>

\* a deactivateMic() that would leave the gate as it is
GateKept == isMicOnRef

\* line 78: isMicOnRef.current = false
GateAfterDeactivate == FALSE

\* deactivateMic()
DeactivateMic ==
    /\ isMicOnRef' = GateAfterDeactivate
    /\ micState' = IDLE
    /\ volume' = 0
    /\ fx' = <<Muted>>
    /\ UNCHANGED <<isConnected, error, sessionPromiseRef,
                   inputAudioContextRef, outputAudioContextRef,
                   scriptProcessorRef, mediaStreamRef, nextStartTimeRef,
                   sourcesRef, currentAiTextRef, currentUserTextRef,
                   envState, transcripts>>

\* sendText(text), up to its first await
SendText(text) ==
    /\ sessionPromiseRef # NoRef => Len(pendingSend[sessionPromiseRef]) < lim.pending
    /\ IF sessionPromiseRef = NoRef
       THEN /\ fx' = <<>>
            /\ UNCHANGED <<src, lastEnd, sourcesRef, nextStartTimeRef, pendingSend>>
       ELSE /\ src' = Overtaken(StopSources(src, sourcesRef))
            /\ lastEnd' = 0
            /\ sourcesRef' = ClearedQueue(sourcesRef)
            /\ nextStartTimeRef' = DrainCursor(DrainClock)
            /\ fx' = <<Drain("sendText", Cardinality(sourcesRef), DrainClock),
                       Msg(text, "user", TRUE)>>
            /\ pendingSend' = [pendingSend EXCEPT ![sessionPromiseRef] = Append(@, text)]
    /\ UNCHANGED <<hookState, sessionPromiseRef, inputAudioContextRef,
                   outputAudioContextRef, scriptProcessorRef, mediaStreamRef,
                   isMicOnRef, currentAiTextRef, currentUserTextRef,
                   hasApiKey, connPc, sess, ctx, currentTime, stream,
                   processor, pendingDisc, pendingFrames, heard,
                   lim, lost>>
    /\ Shows(fx')

\* sendText after `await sessionPromiseRef.current`: session.send(...)
ResumeSendText(k) ==
    /\ pendingSend[k] # <<>>
    /\ Settled(k)
    /\ pendingSend' = [pendingSend EXCEPT ![k] = Tail(@)]
    /\ fx' =
             (CASE sess[k] = "rejected" -> <<Threw("sendText")>>
                [] sess[k] = "open" -> <<TxText(k, Head(pendingSend[k]))>>
                [] OTHER -> <<>>)
    /\ UNCHANGED <<hookState, refs, hasApiKey, connPc, sess, ctx, currentTime,
                   stream, processor, src, lastEnd, pendingDisc, pendingFrames, heard,
                   lim, lost, transcripts>>


\* ------------------------------------------------------------- disconnect
\* scriptProcessorRef.current.disconnect(); onaudioprocess = null
DetachedProcessors ==
    IF scriptProcessorRef = NoRef THEN processor
    ELSE [processor EXCEPT ![scriptProcessorRef] = "detached"]

\* mediaStreamRef.current.getTracks().forEach(track => track.stop())
StoppedStreams ==
    IF mediaStreamRef = NoRef THEN stream
    ELSE [stream EXCEPT ![mediaStreamRef] = "stopped"]

\* inputAudioContextRef.current.close(); outputAudioContextRef.current.close()
ClosedContexts ==
    [k \in Conns |->
        IF k \in {inputAudioContextRef, outputAudioContextRef} /\ ctx[k] = "running"
        THEN "closed" ELSE ctx[k]]

\* the gate value disconnect() leaves
GateAfterDisconnect == isMicOnRef

\* a teardown that would leave the reported error standing
ErrorKept(e) == e

\* setError(null)
ClearedError(e) == NoError

\* disconnect() from line 52 on: release everything the refs point at
Teardown ==
    /\ processor' = DetachedProcessors
    /\ stream' = StoppedStreams
    /\ ctx' = ClosedContexts
    /\ src' = Overtaken(StopSources(src, sourcesRef))
    /\ lastEnd' = 0
    /\ sourcesRef' = ClearedQueue(sourcesRef)
    /\ nextStartTimeRef' = DrainCursor(DrainClock)
    /\ sessionPromiseRef' = NoRef
    /\ isConnected' = FALSE
    /\ micState' = IDLE
    /\ volume' = 0
    /\ error' = ClearedError(error)
    /\ isMicOnRef' = GateAfterDisconnect
    /\ UNCHANGED <<inputAudioContextRef, outputAudioContextRef,
                   scriptProcessorRef, mediaStreamRef, currentAiTextRef,
                   currentUserTextRef, hasApiKey, connPc, currentTime,
                   pendingSend, pendingFrames, heard,
                   lim, lost, transcripts>>

\* what the teardown does: close() on the output context, in whatever state
\* it is, and the drain
TeardownFx ==
    <<Closing(IF outputAudioContextRef = NoRef THEN "none"
              ELSE ctx[outputAudioContextRef]),
      Drain("disconnect", Cardinality(sourcesRef), DrainClock)>>

\* disconnect(), up to `await sessionPromiseRef.current`; with no session
\* promise there is no await and the whole function runs
Disconnect ==
    /\ sessionPromiseRef # NoRef => pendingDisc[sessionPromiseRef] < lim.pending
    /\ IF sessionPromiseRef # NoRef
       THEN /\ pendingDisc' = [pendingDisc EXCEPT ![sessionPromiseRef] = @ + 1]
            /\ fx' = <<>>
            /\ UNCHANGED <<hookState, refs, hasApiKey, connPc, sess, ctx,
                           currentTime, stream, processor, src, lastEnd, pendingSend,
                           pendingFrames, heard,
                   lim, lost, transcripts>>
       ELSE /\ Teardown
            /\ fx' = TeardownFx
            /\ UNCHANGED <<sess, pendingDisc>>

\* disconnect() after the await: session.close() (or the catch, when the
\* promise rejected), then the teardown
ResumeDisconnect(k) ==
    /\ pendingDisc[k] > 0
    /\ Settled(k)
    /\ pendingDisc' = [pendingDisc EXCEPT ![k] = @ - 1]
    /\ sess' = [sess EXCEPT ![k] = IF @ = "open" THEN "closing" ELSE @]
    /\ Teardown
    /\ fx' = TeardownFx

\* ---------------------------------------------------------------- connect
\* a credential check that would let every call through
KeyNeverMissing == FALSE

\* lines 116-117: if (!apiKey) throw
KeyMissing == ~hasApiKey

\* App.tsx line 51: handleStart, the caller of connect(), first does
\* setTranscripts([])
ClearedTranscripts == <<>>

\* connect(), up to `await getUserMedia`
Connect ==
    /\ isConnected \/ ~hasApiKey \/ FreeConn # 0
    /\ fx' = <<>>
    /\ transcripts' = ClearedTranscripts
    /\ IF isConnected
       THEN UNCHANGED <<hookState, refs, envState>>
       ELSE IF KeyMissing
       THEN /\ error' = "API_KEY not found"
            /\ isConnected' = FALSE
            /\ UNCHANGED <<micState, volume, refs, envState>>
       ELSE /\ ctx' = [ctx EXCEPT ![FreeConn] = "running"]
            /\ currentTime' = [currentTime EXCEPT ![FreeConn] = 0]
            /\ inputAudioContextRef' = FreeConn
            /\ outputAudioContextRef' = FreeConn
            /\ connPc' = [connPc EXCEPT ![FreeConn] = "media"]
            /\ UNCHANGED <<hookState, sessionPromiseRef, scriptProcessorRef,
                           mediaStreamRef, nextStartTimeRef, sourcesRef,
                           isMicOnRef, currentAiTextRef, currentUserTextRef,
                           hasApiKey, sess, stream, processor, src, lastEnd,
                           pendingDisc, pendingSend, pendingFrames, heard,
                   lim>>
            /\ lost' = FALSE

\* getUserMedia resolved: the rest of connect(); ai.live.connect is not awaited
MediaGranted(k) ==
    /\ Quiet
    /\ connPc[k] = "media"
    /\ connPc' = [connPc EXCEPT ![k] = "done"]
    /\ stream' = [stream EXCEPT ![k] = "live"]
    /\ mediaStreamRef' = k
    /\ sess' = [sess EXCEPT ![k] = "connecting"]
    /\ sessionPromiseRef' = k
    /\ fx' = <<>>
    /\ UNCHANGED <<hookState, inputAudioContextRef, outputAudioContextRef,
                   scriptProcessorRef, nextStartTimeRef, sourcesRef,
                   isMicOnRef, currentAiTextRef, currentUserTextRef,
                   hasApiKey, ctx, currentTime, processor, src, lastEnd, pendingDisc,
                   pendingSend, pendingFrames, heard,
                   lim, lost, transcripts>>

\* a catch that would swallow the failure
CaughtSilently == NoError

\* line 276: setError(err.message || "Failed to connect")
CaughtError == "Failed to connect"

\* getUserMedia rejected: the catch of connect()
MediaDenied(k) ==
    /\ Quiet
    /\ connPc[k] = "media"
    /\ connPc' = [connPc EXCEPT ![k] = "failed"]
    /\ error' = CaughtError
    /\ isConnected' = FALSE
    /\ fx' = <<>>
    /\ UNCHANGED <<micState, volume, refs, hasApiKey, sess, ctx, currentTime,
                   stream, processor, src, lastEnd, pendingDisc, pendingSend,
                   pendingFrames, heard,
                   lim, lost, transcripts>>


\* --------------------------------------------------------- session events
\* callbacks.onopen of the session connect() call k opened
OnOpen(k) ==
    /\ Quiet
    /\ sess[k] = "connecting"
    /\ sess' = [sess EXCEPT ![k] = "open"]
    /\ isConnected' = TRUE
    /\ micState' = IDLE
    /\ processor' = [processor EXCEPT ![k] = "attached"]
    /\ scriptProcessorRef' = k
    /\ fx' = <<>>
    /\ UNCHANGED <<error, volume, sessionPromiseRef, inputAudioContextRef,
                   outputAudioContextRef, mediaStreamRef, nextStartTimeRef,
                   sourcesRef, isMicOnRef, currentAiTextRef,
                   currentUserTextRef, hasApiKey, connPc, ctx, currentTime,
                   stream, src, lastEnd, pendingDisc, pendingSend, pendingFrames, heard,
                   lim, lost, transcripts>>

\* callbacks.onclose: the stream closed, after close() or from the far side
OnClose(k) ==
    /\ Quiet
    /\ sess[k] \in {"open", "closing"}
    /\ sess' = [sess EXCEPT ![k] = "closed"]
    /\ isConnected' = FALSE
    /\ micState' = IDLE
    /\ fx' = <<>>
    /\ UNCHANGED <<error, volume, refs, hasApiKey, connPc, ctx, currentTime,
                   stream, processor, src, lastEnd, pendingDisc, pendingSend,
                   pendingFrames, heard,
                   lim, transcripts>>
    /\ lost' = TRUE

\* callbacks.onerror on an open stream; the stream's close follows
OnError(k) ==
    /\ Quiet
    /\ sess[k] = "open"
    /\ sess' = [sess EXCEPT ![k] = "closing"]
    /\ error' = "Connection error."
    /\ isConnected' = FALSE
    /\ micState' = IDLE
    /\ fx' = <<>>
    /\ UNCHANGED <<volume, refs, hasApiKey, connPc, ctx, currentTime, stream,
                   processor, src, lastEnd, pendingDisc, pendingSend, pendingFrames, heard,
                   lim, transcripts>>
    /\ lost' = TRUE

\* callbacks.onerror while the handshake is pending: the promise rejects
HandshakeFail(k) ==
    /\ Quiet
    /\ sess[k] = "connecting"
    /\ sess' = [sess EXCEPT ![k] = "rejected"]
    /\ error' = "Connection error."
    /\ isConnected' = FALSE
    /\ micState' = IDLE
    /\ fx' = <<>>
    /\ UNCHANGED <<volume, refs, hasApiKey, connPc, ctx, currentTime, stream,
                   processor, src, lastEnd, pendingDisc, pendingSend, pendingFrames, heard,
                   lim, transcripts>>
    /\ lost' = TRUE

\* the output clocks advance: every running context's currentTime
Tick ==
    /\ Quiet
    /\ \E k \in Conns : ctx[k] = "running" /\ currentTime[k] < MaxTime
    /\ currentTime' = [k \in Conns |->
          IF ctx[k] = "running" /\ currentTime[k] < MaxTime
          THEN currentTime[k] + 1 ELSE currentTime[k]]
    /\ fx' = <<>>
    /\ UNCHANGED <<hookState, refs, hasApiKey, connPc, sess, ctx, stream,
                   processor, src, lastEnd, pendingDisc, pendingSend, pendingFrames, heard,
                   lim, lost, transcripts>>

\* ----------------------------------------------------------- onmessage
\* LiveServerMessage, as far as onmessage reads it
\* (hasOut: serverContent.outputTranscription is present; out: its text)
\* with fragments of at most n characters and audio payloads of the
\* durations in durs
Messages(n, durs) ==
    LET frags == {f \in Frags : Len(f) <= n}
        flags == IF n = 0 THEN {FALSE} ELSE BOOLEAN
    IN {m \in [hasOut : flags, out : frags, inp : frags, turnComplete : flags,
               audio : {0} \cup durs,
               interrupted : BOOLEAN] :
           ~m.hasOut => m.out = <<>>}

\* an accumulator that would put the newest fragment first
Prepended(acc, frag) == frag \o acc

\* currentXTextRef.current += fragment
Accumulate(acc, frag) == acc \o frag

\* a hand-off that would look at the audio payload only
HandoffOnAudioOnly(m, user) ==
    m.audio # 0 /\ user # <<>>

\* lines 193-196: finalize the pending user text when the AI starts responding
HandoffFinal(m, user) ==
    (m.audio # 0 \/ m.hasOut) /\ user # <<>>

\* lines 187-220: the transcript part of onmessage, run on (ai, user);
\* gives the accumulators it leaves and the Messages it emits, in order
Transcribe(m, ai, user) ==
    LET hand == HandoffFinal(m, user)
        fx1 == IF hand THEN <<Msg(user, "user", TRUE)>> ELSE <<>>
        user1 == IF hand THEN <<>> ELSE user
        outText == m.out
        ai2 == IF outText # <<>> THEN Accumulate(ai, outText) ELSE ai
        fx2 == IF outText # <<>> THEN fx1 \o <<Msg(ai2, "ai", FALSE)>> ELSE fx1
        user3 == IF m.inp # <<>> THEN Accumulate(user1, m.inp) ELSE user1
        fx3 == IF m.inp # <<>> THEN fx2 \o <<Msg(user3, "user", FALSE)>> ELSE fx2
        aiFin == m.turnComplete /\ ai2 # <<>>
        fx4 == IF aiFin THEN fx3 \o <<Msg(ai2, "ai", TRUE)>> ELSE fx3
        ai4 == IF aiFin THEN <<>> ELSE ai2
        userFin == m.turnComplete /\ user3 # <<>>
        fx5 == IF userFin THEN fx4 \o <<Msg(user3, "user", TRUE)>> ELSE fx4
        user5 == IF userFin THEN <<>> ELSE user3
    IN [ai |-> ai4, user |-> user5, fx |-> fx5]

\* the fragments heard since the last clear, after event m: the hand-off
\* clears the user's before the event's own fragment is appended, turn
\* completion clears both after it, an interruption handled in the same
\* step clears the AI's
HeardAfter(m, h, user) ==
    LET u1 == IF HandoffFinal(m, user) THEN <<>> ELSE h.user
        u2 == IF m.inp # <<>> THEN Append(u1, m.inp) ELSE u1
        a2 == IF m.out # <<>> THEN Append(h.ai, m.out) ELSE h.ai
    IN [user |-> IF m.turnComplete THEN <<>> ELSE u2,
        ai |-> IF m.turnComplete \/ (m.audio = 0 /\ m.interrupted) THEN <<>> ELSE a2]

\* a cursor that would follow the output clock, without the max
CursorAtClock(cursor, now) == now

\* line 229: nextStartTimeRef = Math.max(nextStartTimeRef, outputCtx.currentTime)
CursorAtArrival(cursor, now) == Max(cursor, now)

\* callbacks.onmessage of session k, up to `await decodeAudioData` when the
\* event carries audio, and to its end otherwise
OnMessage(k, m) ==
    /\ Quiet
    /\ sess[k] \in {"open", "closing"}
    /\ Len(currentAiTextRef) + Len(m.out) <= lim.text
    /\ Len(currentUserTextRef) + Len(m.inp) <= lim.text
    /\ m.audio # 0 => FreeSrc # 0
    /\ LET t == Transcribe(m, currentAiTextRef, currentUserTextRef)
       IN
       /\ currentUserTextRef' = t.user
       /\ heard' = HeardAfter(m, heard, currentUserTextRef)
       /\ IF m.audio # 0
          THEN /\ micState' = SPEAKING
               /\ nextStartTimeRef' = CursorAtArrival(nextStartTimeRef, Clock(k))
               /\ src' = [src EXCEPT ![FreeSrc] =
                             [NoSource EXCEPT !.st = "decoding", !.k = k,
                                              !.dur = m.audio,
                                              !.intr = m.interrupted]]
               /\ currentAiTextRef' = t.ai
               /\ fx' = <<In(m)>> \o t.fx
               /\ UNCHANGED <<sourcesRef, lastEnd>>
          ELSE IF m.interrupted
          THEN /\ src' = StopSources(src, sourcesRef)
               /\ lastEnd' = 0
               /\ sourcesRef' = ClearedQueue(sourcesRef)
               /\ nextStartTimeRef' = DrainCursor(Clock(k))
               /\ currentAiTextRef' = <<>>
               /\ micState' = RestoredMicState(isMicOnRef)
               /\ fx' = <<In(m)>> \o t.fx \o
                        <<Drain("interrupted", Cardinality(sourcesRef), Clock(k))>>
          ELSE /\ currentAiTextRef' = t.ai
               /\ fx' = <<In(m)>> \o t.fx
               /\ UNCHANGED <<micState, nextStartTimeRef, src, lastEnd, sourcesRef>>
    /\ UNCHANGED <<isConnected, error, volume, sessionPromiseRef,
                   inputAudioContextRef, outputAudioContextRef,
                   scriptProcessorRef, mediaStreamRef, isMicOnRef, hasApiKey,
                   connPc, sess, ctx, currentTime, stream, processor,
                   pendingDisc, pendingSend, pendingFrames, lim, lost>>
    /\ Shows(fx')


\* line 241-242: source.start(cursor); cursor += audioBuffer.duration
CursorAfterStart(cursor, dur) == cursor + dur

\* onmessage after `await decodeAudioData` resolved: lines 231-252
DecodeDone(i) ==
    /\ Quiet
    /\ Decoding(i)
    /\ LET k == src[i].k
           started == [src EXCEPT ![i] =
                          [NoSource EXCEPT
                              !.st = IF ctx[k] = "running" THEN "playing" ELSE "dead"]]
           queued == sourcesRef \cup {i}
           start == Start(nextStartTimeRef, Clock(k), lastEnd)
       IN IF src[i].intr
          THEN /\ src' = StopSources(started, queued)
               /\ lastEnd' = 0
               /\ sourcesRef' = ClearedQueue(queued)
               /\ nextStartTimeRef' = DrainCursor(Clock(k))
               /\ currentAiTextRef' = <<>>
               /\ micState' = RestoredMicState(isMicOnRef)
               /\ heard' = [heard EXCEPT !.ai = <<>>]
               /\ fx' = <<start,
                          Drain("interrupted", Cardinality(queued), Clock(k))>>
          ELSE /\ src' = started
               /\ lastEnd' = nextStartTimeRef + src[i].dur
               /\ sourcesRef' = queued
               /\ nextStartTimeRef' = CursorAfterStart(nextStartTimeRef, src[i].dur)
               /\ fx' = <<start>>
               /\ UNCHANGED <<currentAiTextRef, micState, heard>>
    /\ UNCHANGED <<isConnected, error, volume, sessionPromiseRef,
                   inputAudioContextRef, outputAudioContextRef,
                   scriptProcessorRef, mediaStreamRef, isMicOnRef,
                   currentUserTextRef, hasApiKey, connPc, sess, ctx,
                   currentTime, stream, processor, pendingDisc, pendingSend,
                   pendingFrames, lim, lost, transcripts>>

\* `await decodeAudioData` rejected: onmessage ends there, nothing catches
DecodeFail(i) ==
    /\ Quiet
    /\ Decoding(i)
    /\ src' = [src EXCEPT ![i] = [NoSource EXCEPT !.st = "gone"]]
    /\ fx' = <<Threw("onmessage")>>
    /\ UNCHANGED <<hookState, refs, hasApiKey, connPc, sess, ctx, currentTime,
                   stream, processor, lastEnd, pendingDisc, pendingSend,
                   pendingFrames, heard,
                   lim, lost, transcripts>>

\* the 'ended' event of source i can fire: the segment was started on a
\* running context and has played to its end (at a time the model leaves
\* open), or stop() was called on it
PlaybackOver(i) == src[i].st \in {"playing", "stopped"}

\* the 'ended' listener of source i: lines 234-240
Ended(i) ==
    /\ Quiet
    /\ PlaybackOver(i)
    /\ src' = [src EXCEPT ![i] = [NoSource EXCEPT !.st = "gone"]]
    /\ sourcesRef' = sourcesRef \ {i}
    /\ micState' = IF sourcesRef \ {i} = {} THEN RestoredMicState(isMicOnRef)
                   ELSE micState
    /\ fx' = <<>>
    /\ UNCHANGED <<isConnected, error, volume, sessionPromiseRef,
                   inputAudioContextRef, outputAudioContextRef,
                   scriptProcessorRef, mediaStreamRef, nextStartTimeRef,
                   isMicOnRef, currentAiTextRef, currentUserTextRef,
                   hasApiKey, connPc, sess, ctx, currentTime, stream,
                   processor, lastEnd, pendingDisc, pendingSend,
                   pendingFrames, heard,
                   lim, lost, transcripts>>

\* ------------------------------------------------------------- capture
\* lines 166-169: sum += inputData[i] * inputData[i]
RECURSIVE SumSquares(_)
SumSquares(frame) ==
    IF frame = <<>> THEN 0
    ELSE Head(frame) * Head(frame) + SumSquares(Tail(frame))

\* Math.sqrt, on the squares the frames give
Sqrt(n) == CHOOSE r \in 0..n : r * r <= n /\ n < (r + 1) * (r + 1)

\* a meter that would leave out the square root
MeanSquare(frame) == SumSquares(frame) \div Len(frame)

\* line 170: rms = Math.sqrt(sum / inputData.length)
Rms(frame) == Sqrt(SumSquares(frame) \div Len(frame))

\* a callback that would not look at the gate
GateIgnored == TRUE

\* line 159: if (!isMicOnRef.current) return
GateOn == isMicOnRef

\* processor.onaudioprocess of the processor onopen(k) made: lines 157-180
OnAudioProcess(k, level) ==
    /\ Quiet
    /\ processor[k] = "attached"
    /\ ctx[k] = "running"
    /\ LET forwards == GateOn /\ sessionPromiseRef # NoRef
           waits == forwards /\ ~Settled(sessionPromiseRef)
       IN
       /\ waits => pendingFrames[sessionPromiseRef] < lim.pending
       /\ volume' = IF GateOn THEN level ELSE volume
       /\ pendingFrames' = IF waits
                           THEN [pendingFrames EXCEPT ![sessionPromiseRef] = @ + 1]
                           ELSE pendingFrames
       /\ fx' =
                (IF forwards /\ ~waits /\ sess[sessionPromiseRef] = "open"
                 THEN <<TxFrame(sessionPromiseRef)>> ELSE <<>>)
    /\ UNCHANGED <<isConnected, micState, error, refs, hasApiKey, connPc, sess,
                   ctx, currentTime, stream, processor, src, lastEnd, pendingDisc,
                   pendingSend, heard,
                   lim, lost, transcripts>>

\* sessionPromiseRef.current.then(session => session.sendRealtimeInput(...))
\* for a frame captured while the promise was pending
ResumeFrame(k) ==
    /\ pendingFrames[k] > 0
    /\ Settled(k)
    /\ pendingFrames' = [pendingFrames EXCEPT ![k] = @ - 1]
    /\ fx' =
             (IF sess[k] = "open" THEN <<TxFrame(k)>> ELSE <<>>)
    /\ UNCHANGED <<hookState, refs, hasApiKey, connPc, sess, ctx, currentTime,
                   stream, processor, src, lastEnd, pendingDisc, pendingSend, heard,
                   lim, lost, transcripts>>

\* ------------------------------------------------------------------ Next
UserCall ==
    \/ Connect
    \/ Disconnect
    \/ ActivateMic
    \/ DeactivateMic
    \/ \E text \in lim.texts : SendText(text)

Microtask ==
    \/ \E k \in Conns : ResumeDisconnect(k)
    \/ \E k \in Conns : ResumeSendText(k)

Lifecycle ==
    \/ \E k \in Conns : MediaGranted(k)
    \/ \E k \in Conns : MediaDenied(k)
    \/ \E k \in Conns : OnOpen(k)
    \/ \E k \in Conns : OnClose(k)
    \/ \E k \in Conns : OnError(k)
    \/ \E k \in Conns : HandshakeFail(k)

Playback ==
    \/ \E k \in Conns, m \in Messages(lim.text, lim.durs) : OnMessage(k, m)
    \/ \E i \in Srcs : DecodeDone(i)
    \/ \E i \in Srcs : DecodeFail(i)
    \/ \E i \in Srcs : Ended(i)
    \/ Tick

Capture == \E k \in Conns, frame \in Frames : OnAudioProcess(k, Rms(frame))

\* every step a run with a single connect() call can take
NextOne == UserCall \/ Microtask \/ Lifecycle \/ Playback

\* the same with the capture callback
NextCapture == NextOne \/ Capture

\* with overlapping connect() calls a captured frame can wait on a pending
\* session promise
Next == NextCapture \/ \E k \in Conns : ResumeFrame(k)

Init == InitWith(Limits(MaxConnects, MaxAudio, MaxText, BOOLEAN, Texts, 2, Durs, 0))

\* the whole hook
Spec == Init /\ [][Next]_vars

\* one session, its audio playback and the microphone gate; no transcript text
InitAudio == InitWith(Limits(1, MaxAudio, 0, {TRUE}, {<<"a">>}, 1, Durs, 0))

SpecAudio == InitAudio /\ [][NextOne]_vars


\* one session and its transcript: inbound events, one of them with audio,
\* disconnect and the stream's close; no clock, no gate, no sendText
InitText == InitWith(Limits(1, 1, MaxText, {TRUE}, {<<"a">>}, 1, {1}, 0))

NextText ==
    \/ Connect
    \/ Disconnect
    \/ \E k \in Conns : ResumeDisconnect(k)
    \/ \E k \in Conns : MediaGranted(k)
    \/ \E k \in Conns : OnOpen(k)
    \/ \E k \in Conns : OnClose(k)
    \/ \E k \in Conns, m \in Messages(lim.text, lim.durs) : OnMessage(k, m)
    \/ \E i \in Srcs : DecodeDone(i)
    \/ \E i \in Srcs : DecodeFail(i)
    \/ \E i \in Srcs : Ended(i)

SpecText == InitText /\ [][NextText]_vars

\* one session with its capture callback and its errors, with or without
\* the API_KEY configured, and callers that call disconnect() or sendText()
\* twice in a row
InitTeardown == InitWith(Limits(1, 1, 0, BOOLEAN, {<<"a">>}, 2, {1}, 0))

SpecTeardown == InitTeardown /\ [][NextCapture]_vars

\* connect() calls that overlap: sessions, their handshakes and closes,
\* one audio event, sendText and disconnect; no clock, no gate
InitOverlap == InitWith(Limits(MaxConnects, 1, 0, {TRUE}, {<<"a">>}, 1, {1}, 0))

NextOverlap ==
    \/ Connect
    \/ Disconnect
    \/ \E text \in lim.texts : SendText(text)
    \/ \E k \in Conns : ResumeDisconnect(k)
    \/ \E k \in Conns : ResumeSendText(k)
    \/ \E k \in Conns : MediaGranted(k)
    \/ \E k \in Conns : OnOpen(k)
    \/ \E k \in Conns : OnClose(k)
    \/ \E k \in Conns, m \in Messages(lim.text, lim.durs) : OnMessage(k, m)
    \/ \E i \in Srcs : DecodeDone(i)
    \/ \E i \in Srcs : Ended(i)

SpecOverlap == InitOverlap /\ [][NextOverlap]_vars

\* one session and the transcript list its Messages go to: inbound events
\* with transcript fragments, turn ends and interruptions but no audio,
\* sendText, disconnect and the stream's close
InitTranscript == InitWith(Limits(1, 0, 1, {TRUE}, {<<"a">>}, 1, {}, MaxShown))

NextTranscript ==
    \/ Connect
    \/ Disconnect
    \/ \E text \in lim.texts : SendText(text)
    \/ \E k \in Conns : ResumeDisconnect(k)
    \/ \E k \in Conns : ResumeSendText(k)
    \/ \E k \in Conns : MediaGranted(k)
    \/ \E k \in Conns : OnOpen(k)
    \/ \E k \in Conns : OnClose(k)
    \/ \E k \in Conns, m \in Messages(lim.text, lim.durs) : OnMessage(k, m)

SpecTranscript == InitTranscript /\ [][NextTranscript]_vars

\* connect() calls that overlap, with the microphone gate and the capture
\* callbacks of the sessions they open; no audio events, no text
InitStreams == InitWith(Limits(MaxConnects, 0, 0, {TRUE}, {<<"a">>}, 1, {}, 0))

NextStreams ==
    \/ Connect
    \/ Disconnect
    \/ ActivateMic
    \/ DeactivateMic
    \/ \E k \in Conns : ResumeDisconnect(k)
    \/ \E k \in Conns : MediaGranted(k)
    \/ \E k \in Conns : OnOpen(k)
    \/ \E k \in Conns : OnClose(k)
    \/ \E k \in Conns : OnError(k)
    \/ Capture
    \/ \E k \in Conns : ResumeFrame(k)

SpecStreams == InitStreams /\ [][NextStreams]_vars

\* one session after another, each with its transcript events; no list
InitReconnect == InitWith(Limits(MaxConnects, 0, 1, {TRUE}, {<<"a">>}, 1, {}, 0))

SpecReconnect == InitReconnect /\ [][NextTranscript]_vars

\* one session that stays open and one audio event, the gate and sendText,
\* with what the runtime guarantees: a continuation whose promise has
\* settled runs; a decode settles and the 'ended' event of a segment that is
\* over fires, however often other callbacks and their microtasks come first
InitPlayback == InitWith(Limits(1, 1, 0, {TRUE}, {<<"a">>}, 1, {1}, 0))

Fairness ==
    /\ \A i \in Srcs : SF_vars(Ended(i))
    /\ \A i \in Srcs : SF_vars(DecodeDone(i) \/ DecodeFail(i))
    /\ WF_vars(Microtask)

NextPlayback ==
    \/ Connect
    \/ ActivateMic
    \/ DeactivateMic
    \/ \E text \in lim.texts : SendText(text)
    \/ \E k \in Conns : ResumeSendText(k)
    \/ \E k \in Conns : MediaGranted(k)
    \/ \E k \in Conns : OnOpen(k)
    \/ \E k \in Conns, m \in Messages(lim.text, lim.durs) : OnMessage(k, m)
    \/ \E i \in Srcs : DecodeDone(i)
    \/ \E i \in Srcs : DecodeFail(i)
    \/ \E i \in Srcs : Ended(i)
    \/ Tick

SpecPlayback == InitPlayback /\ [][NextPlayback]_vars /\ Fairness

\* ------------------------------------------------------- reading fx
Effects(kind) == {i \in 1..Len(fx) : fx[i][1] = kind}
Drains == Effects("drain")
DrainsBy(by) == {i \in Drains : fx[i][2] = by}
HasDrain == Drains # {}

\* ------------------------------------------------------------ C1
\* the mic state the spec derives from the queue and the gate
DerivedMicState ==
    IF sourcesRef # {} THEN SPEAKING
    ELSE IF isMicOnRef THEN LISTENING ELSE IDLE

\* C1: in every reachable state micState equals the derived value: speaking
\* if the Output Audio Queue is non-empty, else listening if the Microphone
\* Gate is on, else idle.
C1_MicStateIsDerived == micState = DerivedMicState

C4_SegmentsNeverOverlap ==
    \A i \in Effects("start") : fx[i][2] >= fx[i][4] /\ fx[i][2] >= fx[i][3]

\* ------------------------------------------------------------ C9
\* C9: activateMic() while connected leaves the queue empty and the gate on;
\* a second activateMic() right after the first leaves gate, queue, cursor
\* and micState as the first left them.
C9_ActivateMicDrainsOnce ==
    /\ [][(ActivateMic /\ isConnected) => (sourcesRef' = {} /\ isMicOnRef')]_vars
    /\ [][(DrainsBy("activateMic") # {} /\ ActivateMic) =>
            UNCHANGED <<isMicOnRef, sourcesRef, nextStartTimeRef, micState>>]_vars

\* activateMic() has just drained a queue that held segments
C9_Witness ==
    /\ \E i \in DrainsBy("activateMic") : fx[i][3] > 0
    /\ sourcesRef = {}
    /\ isMicOnRef


\* ------------------------------------------------------------ C5
Msgs(f) == {i \in 1..Len(f) : f[i][1] = "msg"}
MsgsOf(f, role) == {i \in Msgs(f) : f[i][3] = role}
FinalsOf(f, role) == {i \in MsgsOf(f, role) : f[i][4]}

\* step f handled an inbound event
IsEvent(f) == f # <<>> /\ f[1][1] = "in"
\* ... that carries AI audio or an AI output transcription
IsAiEvent(f) == IsEvent(f) /\ (f[1][2].audio # 0 \/ f[1][2].hasOut)

\* the final user Message with the accumulated text comes first
HandoffFirst(f, user) ==
    /\ Len(f) >= 2
    /\ f[2][1] = "msg"
    /\ f[2][3] = "user"
    /\ f[2][4]
    /\ f[2][2] = user

\* C5 as stated: an event with AI audio or AI text handled while the user
\* accumulator is non-empty emits the final user Message before any AI
\* Message and leaves the user accumulator empty, also when it carries a
\* user fragment itself.
C5_HandoffLeavesUserEmpty ==
    [][(IsAiEvent(fx') /\ currentUserTextRef # <<>>) =>
          /\ HandoffFirst(fx', currentUserTextRef)
          /\ currentUserTextRef' = <<>>]_vars

\* C5 as the code has it: the final user Message comes first and the
\* accumulator is cleared then; after the event it holds the user fragment
\* that same event carried, and is empty if it carried none or ended the turn.
C5_HandoffLeavesOwnFragment ==
    [][(IsAiEvent(fx') /\ currentUserTextRef # <<>>) =>
          /\ HandoffFirst(fx', currentUserTextRef)
          /\ currentUserTextRef' =
                IF fx'[1][2].turnComplete THEN <<>> ELSE fx'[1][2].inp]_vars

\* a hand-off by an event that carried a user fragment of its own
C5_Witness ==
    /\ IsAiEvent(fx)
    /\ Len(fx) >= 2 /\ fx[2][1] = "msg" /\ fx[2][3] = "user" /\ fx[2][4]
    /\ fx[1][2].inp # <<>>
    /\ currentUserTextRef = fx[1][2].inp

\* ------------------------------------------------------------ C6
RECURSIVE Concat(_)
Concat(frags) == IF frags = <<>> THEN <<>> ELSE Head(frags) \o Concat(Tail(frags))

\* C6: every Message an inbound event emits has as text the concatenation,
\* in arrival order, of the fragments received for its role since that
\* role's accumulator was last cleared; a turn-complete event emits exactly
\* one final Message per non-empty accumulator, none for an empty one, and
\* leaves both accumulators empty.
C6_MessagesAreConcatenations ==
    /\ [](currentAiTextRef = Concat(heard.ai) /\ currentUserTextRef = Concat(heard.user))
    /\ [][IsEvent(fx') =>
            LET m == fx'[1][2]
                aiText == Concat(heard.ai) \o m.out
                userBefore == Concat(heard.user)
                handoff == (m.audio # 0 \/ m.hasOut) /\ userBefore # <<>>
                userText == (IF handoff THEN <<>> ELSE userBefore) \o m.inp
                \* where the hand-off's final user Message stands
                first == IF handoff THEN {2} ELSE {}
            IN /\ \A i \in MsgsOf(fx', "ai") : fx'[i][2] = aiText
               /\ \A i \in MsgsOf(fx', "user") \ first :
                     fx'[i][2] = userText
               /\ \A i \in first :
                     i <= Len(fx') /\ fx'[i][1] = "msg" /\ fx'[i][3] = "user" /\ fx'[i][4]
                        /\ fx'[i][2] = userBefore
               /\ m.turnComplete =>
                     /\ Cardinality(FinalsOf(fx', "ai")) = IF aiText = <<>> THEN 0 ELSE 1
                     /\ Cardinality(FinalsOf(fx', "user") \ first) =
                           IF userText = <<>> THEN 0 ELSE 1
                     /\ currentAiTextRef' = <<>>
                     /\ currentUserTextRef' = <<>>]_vars

\* a turn-complete event has finalized AI text made of two fragments that
\* arrived in two events, in their order of arrival
C6_Witness ==
    /\ IsEvent(fx)
    /\ fx[1][2].turnComplete
    /\ fx[1][2].out = <<"b">>
    /\ \E i \in FinalsOf(fx, "ai") : fx[i][2] = <<"a", "b">>
    /\ currentAiTextRef = <<>>


\* ------------------------------------------------------------ C7
\* C7: sendText(text) called while connected drains the queue and emits
\* exactly one final user Message with exactly that text, in the step that
\* ends at sendText's first await: nothing is transmitted in it, and the
\* transmission is what waits on the session promise.
C7_SendTextWhileConnected ==
    [][\A t \in lim.texts : (SendText(t) /\ isConnected) =>
          /\ sourcesRef' = {}
          /\ DrainsBy("sendText")' # {}
          /\ Cardinality(Msgs(fx')) = 1
          /\ \A i \in Msgs(fx') : fx'[i] = Msg(t, "user", TRUE)
          /\ Effects("tx")' = {}
          /\ \E k \in Conns : pendingSend'[k] = Append(pendingSend[k], t)]_vars

\* ------------------------------------------------------------ C8
\* C8: sendText called in a state where the session is not connected emits
\* no Message, transmits nothing now or later, and leaves queue, cursor,
\* gate and micState unchanged.
C8_SendTextWhileNotConnected ==
    [][\A t \in lim.texts : (SendText(t) /\ ~isConnected) =>
          /\ fx' = <<>>
          /\ UNCHANGED <<sourcesRef, nextStartTimeRef, isMicOnRef, micState,
                         pendingSend>>]_vars

\* ------------------------------------------------------------ C10
\* C10: a disconnect() that has completed raised nothing and left
\* isConnected = false, micState = idle, volume = 0 and error = null; a
\* disconnect() that completes right after another one changes none of
\* these, nor the session handle, the queue, the cursor, the gate or the
\* released devices and contexts.
C10_DisconnectTwice ==
    /\ [](DrainsBy("disconnect") # {} =>
            /\ ~isConnected
            /\ micState = IDLE
            /\ volume = 0
            /\ error = NoError
            /\ Effects("throw") = {})
    /\ [][(DrainsBy("disconnect") # {} /\ DrainsBy("disconnect")' # {}) =>
            UNCHANGED <<hookState, sessionPromiseRef, sourcesRef,
                        nextStartTimeRef, isMicOnRef, ctx, stream,
                        processor>>]_vars

\* a disconnect() has completed on contexts an earlier disconnect() closed
C10_Witness ==
    /\ DrainsBy("disconnect") # {}
    /\ \E i \in Effects("close") : fx[i][2] = "closed"
    /\ ~isConnected
    /\ error = NoError

\* ------------------------------------------------------------ C11
\* C11: after every completed disconnect() the Microphone Gate is off.
C11_GateOffAfterDisconnect ==
    DrainsBy("disconnect") # {} => ~isMicOnRef

\* ------------------------------------------------------------ C12
\* C12: connect() called with no API credential configured sets a non-null
\* error, leaves isConnected false and acquires nothing: no audio context,
\* no capture stream, no session, no ref assigned; so with no credential no
\* context, stream or session ever exists.
C12_NoKeyNoAttempt ==
    /\ [][(Connect /\ ~hasApiKey /\ ~isConnected) =>
            /\ error' # NoError
            /\ ~isConnected'
            /\ UNCHANGED <<ctx, stream, sess, connPc, refs>>]_vars
    /\ [](~hasApiKey =>
            /\ ~isConnected
            /\ \A k \in Conns :
                  ctx[k] = "none" /\ stream[k] = "none" /\ sess[k] = "none")

\* connect() has just failed for want of the credential
C12_Witness ==
    /\ ~hasApiKey
    /\ error = "API_KEY not found"
    /\ ~isConnected
    /\ \A k \in Conns : ctx[k] = "none" /\ sess[k] = "none"

\* ------------------------------------------------------------ C13
\* sessions opened or being opened, and not yet closed
LiveSessions == {k \in Conns : sess[k] \in {"connecting", "open"}}

\* C13: at most one remote session exists at any time.
C13_SingleSession == Cardinality(LiveSessions) <= 1

\* ------------------------------------------------------------ C14
\* the captured frames a step hands to a session
FrameTx(f) == {i \in 1..Len(f) : f[i][1] = "tx" /\ f[i][2] = "frame"}

\* C14: a frame reaches a session only if the Microphone Gate was on when
\* the capture callback ran: a step that sends a frame either runs with the
\* gate on or sends one that was captured earlier and waited for the session
\* promise, and frames are put to wait only with the gate on; a callback that
\* runs with the gate off sends nothing and puts nothing to wait.
C14_FramesOnlyWhenGateOn ==
    /\ [][FrameTx(fx') # {} =>
            \/ isMicOnRef
            \/ \E k \in Conns : pendingFrames'[k] < pendingFrames[k]]_vars
    /\ [][(\E k \in Conns : pendingFrames'[k] > pendingFrames[k]) => isMicOnRef]_vars
    /\ [][\A k \in Conns, frame \in Frames :
            (OnAudioProcess(k, Rms(frame)) /\ ~isMicOnRef) =>
                FrameTx(fx') = {} /\ UNCHANGED pendingFrames]_vars

\* a frame captured with the gate on has just been sent
C14_Witness ==
    /\ FrameTx(fx) # {}
    /\ isMicOnRef
    /\ isConnected

\* ------------------------------------------------------------ C15
\* the RMS of a frame whose samples all have the same magnitude
Magnitude(frame) == IF frame[1] < 0 THEN 0 - frame[1] ELSE frame[1]

C16_StaysDisconnected ==
    /\ [][\A k \in Conns :
            (OnClose(k) \/ OnError(k) \/ HandshakeFail(k)) =>
                ~isConnected' /\ micState' = IDLE]_vars
    /\ [][\A k \in Conns :
            (OnError(k) \/ HandshakeFail(k)) => error' # NoError]_vars
    /\ [](lost => ~isConnected)

\* ------------------------------------------------------------ C17
\* C17: when a disconnect() has completed, whatever way the awaited session
\* promise settled, the capture streams are stopped, the capture processors
\* detached, the audio contexts closed, the queue is empty and the session
\* is disconnected.
C17_TeardownReleasesAll ==
    DrainsBy("disconnect") # {} =>
        /\ \A k \in Conns :
              /\ stream[k] # "live"
              /\ processor[k] # "attached"
              /\ ctx[k] # "running"
        /\ sourcesRef = {}
        /\ sessionPromiseRef = NoRef
        /\ ~isConnected

\* ------------------------------------------------------------ C18
\* C18: a segment whose decode was still awaited when activateMic, sendText
\* or disconnect drained the queue is not started and not queued when the
\* decode resolves.
C18_DrainCancelsPendingDecode ==
    [][\A i \in Srcs :
          (src[i].st = "late" /\ DecodeDone(i)) =>
              i \notin sourcesRef' /\ Effects("start")' = {}]_vars

\* ------------------------------------------------------------ C19
\* C19: when the decode of an event's audio payload fails, error and
\* isConnected stay as they are, the queue is as it was, and the rest of the
\* event is still processed: an interruption the event signals drains the
\* queue and clears the AI accumulator.
C19_DecodeFailureDropsOnlySegment ==
    [][\A i \in Srcs :
          DecodeFail(i) =>
              /\ UNCHANGED <<error, isConnected>>
              /\ IF src[i].intr
                 THEN DrainsBy("interrupted")' # {} /\ sourcesRef' = {}
                 ELSE UNCHANGED sourcesRef]_vars

\* ------------------------------------------------------------ C20
\* C20: when getUserMedia is refused, the connect() call ends with
\* isConnected false and a non-null error and opens no session; a call that
\* ended so never has a capture stream or a session later: nothing retries.
C20_MediaDeniedEndsAttempt ==
    /\ [][\A k \in Conns :
            MediaDenied(k) =>
                /\ ~isConnected'
                /\ error' # NoError
                /\ UNCHANGED <<sess, stream, sessionPromiseRef, mediaStreamRef>>]_vars
    /\ [](\A k \in Conns :
            connPc[k] = "failed" => sess[k] = "none" /\ stream[k] = "none")
    /\ [][\A k \in Conns : connPc[k] = "failed" => connPc'[k] = "failed"]_vars

\* a connect() call has just ended on a refused capture device
C20_Witness ==
    /\ \E k \in Conns : connPc[k] = "failed" /\ sess[k] = "none"
    /\ error = "Failed to connect"
    /\ ~isConnected
    /\ fx = <<>>

\* ------------------------------------------------------------ C21
\* what the handling of an interruption leaves
Interrupted ==
    /\ sourcesRef = {}
    /\ currentAiTextRef = <<>>
    /\ micState = RestoredMicState(isMicOnRef)

\* C21: when the handling of an inbound event that signals interruption
\* ends, the queue is empty, the AI accumulator is empty and micState is
\* listening with the gate on and idle otherwise; the event emits a final AI
\* Message only if it also completes the turn, and none once the
\* interruption has discarded the text.
C21_InterruptionDiscards ==
    /\ [][(IsEvent(fx') /\ fx'[1][2].interrupted /\ fx'[1][2].audio = 0) =>
            /\ Interrupted'
            /\ FinalsOf(fx', "ai") # {} => fx'[1][2].turnComplete]_vars
    /\ [][\A i \in Srcs :
            ((DecodeDone(i) \/ DecodeFail(i)) /\ src[i].intr) =>
                Interrupted' /\ Msgs(fx') = {}]_vars

\* ------------------------------------------------------------ C22
\* the list keeps its i-th Message as it is
Kept(i) == i <= Len(transcripts') /\ transcripts'[i] = transcripts[i]

\* the role of the first transcript callback of step f
FirstRole(f) == f[CHOOSE i \in Msgs(f) : \A j \in Msgs(f) : i <= j][3]

\* C22: across every step that makes transcript callbacks, a final Message
\* of the list stays where it is with its text, role and finality; the only
\* Message such a step removes or replaces is the list's last one, when it
\* is non-final and of the role of the incoming Message.
C22_FinalIsOneWay ==
    [][Msgs(fx') # {} =>
          \A i \in 1..Len(transcripts) :
              /\ transcripts[i].isFinal => Kept(i)
              /\ ~Kept(i) =>
                    /\ i = Len(transcripts)
                    /\ ~transcripts[i].isFinal
                    /\ transcripts[i].role = FirstRole(fx')]_vars

\* a callback has just added a Message behind a final one of its own role
C22_Witness ==
    /\ Msgs(fx) # {}
    /\ \E i \in 1..(Len(transcripts) - 1) :
          /\ transcripts[i].isFinal
          /\ transcripts[i + 1].role = transcripts[i].role
          /\ i + 1 = Len(transcripts)

\* ------------------------------------------------------------ C23
\* C23: deactivateMic() turns the Microphone Gate off and leaves the queue,
\* the next-start cursor, both transcript accumulators and isConnected as
\* they were; no source is stopped, so segments that were playing keep
\* playing.
C23_DeactivateLeavesPlayback ==
    [][DeactivateMic =>
          /\ ~isMicOnRef'
          /\ UNCHANGED <<sourcesRef, nextStartTimeRef, currentAiTextRef,
                         currentUserTextRef, isConnected, src>>]_vars

\* deactivateMic() has just run with the gate on and a segment playing
C23_Witness ==
    /\ Effects("mute") # {}
    /\ ~isMicOnRef
    /\ isConnected
    /\ nextStartTimeRef > 0
    /\ \E i \in sourcesRef : src[i].st = "playing"

\* ------------------------------------------------------------ C24
\* C24: micState is never 'processing': it is idle, listening or speaking in
\* every reachable state.
C24_NeverProcessing ==
    micState # PROCESSING /\ micState \in {IDLE, LISTENING, SPEAKING}

\* the AI has just begun to answer a user whose gate is on: micState went
\* from listening to speaking
C24_Witness ==
    /\ IsEvent(fx)
    /\ fx[1][2].audio # 0
    /\ isMicOnRef
    /\ micState = SPEAKING

\* ------------------------------------------------------------ C25
\* C25: whenever isConnected is false, micState is idle: after disconnect(),
\* a close or an error no playback-ended callback, inbound event or capture
\* callback moves it to listening or speaking.
C25_IdleWhileDisconnected == ~isConnected => micState = IDLE

\* ------------------------------------------------------------ C26
\* a session that is open or being opened can still be closed: its promise
\* is the session handle, or a disconnect() is waiting on it
Closable(k) == sessionPromiseRef = k \/ pendingDisc[k] > 0

\* C26: a disconnect() that resumes on the session promise it awaited while
\* a newer connect() has taken over the refs closes that session and leaves
\* the newer connection alone: its capture stream, its audio contexts and
\* the session handle stay as they were, and afterwards every session that
\* is open or being opened can still be closed.
C26_DisconnectSparesNewer ==
    [][\A k \in Conns :
          (ResumeDisconnect(k) /\ sessionPromiseRef # k /\ sessionPromiseRef # NoRef) =>
              /\ sess'[k] \notin {"connecting", "open"}
              /\ \A j \in Conns \ {k} :
                    stream'[j] = stream[j] /\ ctx'[j] = ctx[j]
              /\ UNCHANGED sessionPromiseRef
              /\ \A j \in LiveSessions' : Closable(j)']_vars

\* ------------------------------------------------------------ C27
\* C27: no captured frame is handed to a remote stream in a state where
\* isConnected is false, whether or not the Microphone Gate is on.
C27_NoFramesWhileDisconnected == FrameTx(fx) # {} => isConnected

\* ------------------------------------------------------------ C28
\* C28: when a session opens, both transcript accumulators are empty.
C28_AccumulatorsEmptyAtOpen ==
    [][\A k \in Conns :
          OnOpen(k) => currentAiTextRef' = <<>> /\ currentUserTextRef' = <<>>]_vars

\* ------------------------------------------------------------ C29
NonFinals(role) ==
    {i \in 1..Len(transcripts) : transcripts[i].role = role /\ ~transcripts[i].isFinal}

\* C29: the transcript list holds at most one non-final Message per role,
\* and a non-final Message is the newest Message of its role.
C29_OneNonFinalPerRole ==
    \A role \in {"user", "ai"} :
        /\ Cardinality(NonFinals(role)) <= 1
        /\ \A i \in NonFinals(role) :
              \A j \in (i + 1)..Len(transcripts) : transcripts[j].role # role

\* ------------------------------------------------------------ C30
\* C30: once the audio events have stopped arriving, every scheduled segment
\* is eventually out of the queue and micState is eventually no longer
\* speaking, and both stay so.
C30_PlaybackEventuallyOver ==
    <>[](sourcesRef = {} /\ micState # SPEAKING)

=============================================================================
